---- MODULE Spec2Model ----
(***************************************************************************)
(* Model of the knowledge-retrieval pipeline (task1-Knowledge-Retrieval):  *)
(* the PDF chunker (src/pdf_processor.py), the embeddings client           *)
(* (src/embeddings.py), the search service (src/search_client.py), the     *)
(* RAG pipeline (src/rag_pipeline.py), configuration validation            *)
(* (src/config.py), the indexing script (scripts/index_document.py) and    *)
(* the chat application (app.py).                                          *)
(*                                                                         *)
(* Text is a sequence of one-character strings; character offsets are      *)
(* 0-based as in Python.  Relevance scores are integer thousandths.        *)
(***************************************************************************)
EXTENDS Integers, Sequences, FiniteSets, TLC

\* ------------------------------------------------------------------ bounds
MaxPages == 2
MaxTextLen == 4
MaxTexts == 4
MaxBatchSize == 3
MaxChunks == 101
MaxMatches == 2
MaxMessages == 3
MaxDocChunks == 2
MaxRuns == 2

\* ------------------------------------------------------------ text helpers
LF == "\n"
Whitespace == {" ", LF}
Alphabet == {"a", ".", " ", LF}

Min(S) == CHOOSE x \in S : \A y \in S : x <= y

RECURSIVE LStrip(_)
LStrip(s) == IF s # <<>> /\ Head(s) \in Whitespace THEN LStrip(Tail(s)) ELSE s

RECURSIVE RStrip(_)
RStrip(s) ==
    IF s # <<>> /\ s[Len(s)] \in Whitespace
    THEN RStrip(SubSeq(s, 1, Len(s) - 1))
    ELSE s

\* str.strip()
Strip(s) == RStrip(LStrip(s))

\* str.find(sub, start): lowest 0-based offset >= start where sub occurs, or -1
Find(text, sub, start) ==
    LET hits == {p \in start..(Len(text) - Len(sub)) :
                    SubSeq(text, p + 1, p + Len(sub)) = sub}
    IN IF hits = {} THEN -1 ELSE Min(hits)

RECURSIVE Join(_, _)
\* separator.join(docs)
Join(docs, separator) ==
    IF docs = <<>> THEN <<>>
    ELSE IF Len(docs) = 1 THEN docs[1]
    ELSE docs[1] \o separator \o Join(Tail(docs), separator)

\* --------------------------------------- RecursiveCharacterTextSplitter
\* separators=["\n\n", "\n", ". ", " ", ""]
Separators == << <<LF, LF>>, <<LF>>, <<".", " ">>, <<" ">>, <<>> >>

RECURSIVE SplitOn(_, _)
\* the pieces of text between successive non-overlapping occurrences of sep
SplitOn(text, sep) ==
    LET p == Find(text, sep, 0)
    IN IF p = -1 THEN <<text>>
       ELSE <<SubSeq(text, 1, p)>>
            \o SplitOn(SubSeq(text, p + Len(sep) + 1, Len(text)), sep)

\* split on sep, each separator kept at the start of the piece that follows
\* it; the empty separator splits into characters; empty pieces are dropped
SplitKeepSeparator(text, sep) ==
    IF sep = <<>> THEN [k \in 1..Len(text) |-> <<text[k]>>]
    ELSE LET pieces == SplitOn(text, sep)
             joined == [k \in 1..Len(pieces) |->
                          IF k = 1 THEN pieces[1] ELSE sep \o pieces[k]]
         IN SelectSeq(joined, LAMBDA s : s # <<>>)

\* joined and stripped text of the current pieces, <<>> when nothing is left
JoinDocs(docs, separator) == Strip(Join(docs, separator))

RECURSIVE PopOverlap(_, _, _, _, _)
\* drop pieces from the front of the current chunk until what is left fits
\* the overlap and leaves room for the next piece; returns <<current, total>>
PopOverlap(cur, total, dlen, seplen, cfg) ==
    IF total > cfg.chunk_overlap
       \/ (total + dlen + (IF Len(cur) > 0 THEN seplen ELSE 0) > cfg.chunk_size
           /\ total > 0)
    THEN PopOverlap(Tail(cur),
                    total - (Len(cur[1]) + (IF Len(cur) > 1 THEN seplen ELSE 0)),
                    dlen, seplen, cfg)
    ELSE <<cur, total>>

RECURSIVE MergeLoop(_, _, _, _, _, _, _)
MergeLoop(splits, k, docs, cur, total, separator, cfg) ==
    IF k > Len(splits)
    THEN LET doc == JoinDocs(cur, separator)
         IN IF doc = <<>> THEN docs ELSE Append(docs, doc)
    ELSE LET d == splits[k]
             seplen == Len(separator)
             over == total + Len(d) + (IF Len(cur) > 0 THEN seplen ELSE 0)
                         > cfg.chunk_size
             flush == over /\ Len(cur) > 0
             doc == JoinDocs(cur, separator)
             docs1 == IF flush /\ doc # <<>> THEN Append(docs, doc) ELSE docs
             popped == IF flush THEN PopOverlap(cur, total, Len(d), seplen, cfg)
                       ELSE <<cur, total>>
             cur1 == Append(popped[1], d)
             total1 == popped[2] + Len(d) + (IF Len(cur1) > 1 THEN seplen ELSE 0)
         IN MergeLoop(splits, k + 1, docs1, cur1, total1, separator, cfg)

\* pieces are merged into chunks of at most chunk_size, consecutive chunks
\* sharing up to chunk_overlap characters of whole pieces
MergeSplits(splits, separator, cfg) == MergeLoop(splits, 1, <<>>, <<>>, 0, separator, cfg)

\* index of the separator used for text: the first one that is empty or
\* occurs in text
PickSeparator(text, separators) ==
    LET hits == {k \in 1..Len(separators) :
                    separators[k] = <<>> \/ Find(text, separators[k], 0) # -1}
    IN IF hits = {} THEN 0 ELSE Min(hits)

RECURSIVE SplitTextRec(_, _, _)
RECURSIVE SplitLoop(_, _, _, _, _, _)
SplitLoop(splits, k, good, final, newseps, cfg) ==
    IF k > Len(splits)
    THEN IF good # <<>> THEN final \o MergeSplits(good, <<>>, cfg) ELSE final
    ELSE LET s == splits[k]
         IN IF Len(s) < cfg.chunk_size
            THEN SplitLoop(splits, k + 1, Append(good, s), final, newseps, cfg)
            ELSE LET flushed == IF good # <<>>
                                THEN final \o MergeSplits(good, <<>>, cfg)
                                ELSE final
                     deeper == IF newseps = <<>> THEN <<s>>
                               ELSE SplitTextRec(s, newseps, cfg)
                 IN SplitLoop(splits, k + 1, <<>>, flushed \o deeper, newseps, cfg)

SplitTextRec(text, separators, cfg) ==
    LET k == PickSeparator(text, separators)
        separator == IF k = 0 THEN separators[Len(separators)] ELSE separators[k]
        newseps == IF k = 0 \/ separators[k] = <<>> THEN <<>>
                   ELSE SubSeq(separators, k + 1, Len(separators))
    IN SplitLoop(SplitKeepSeparator(text, separator), 1, <<>>, <<>>, newseps, cfg)

\* text_splitter.split_text(full_text)
SplitText(text, cfg) == SplitTextRec(text, Separators, cfg)

\* ------------------------------------------------------------ DocumentChunk
NoneValue == "None"

RECURSIVE Digits(_)
\* decimal digits of a natural number, most significant first
Digits(n) == IF n < 10 THEN <<n>> ELSE Append(Digits(n \div 10), n % 10)

RECURSIVE ZeroPad(_, _)
ZeroPad(ds, width) == IF Len(ds) >= width THEN ds ELSE ZeroPad(<<0>> \o ds, width)
\* the chunk id without zero padding
FormatChunkIdUnpadded(i) == <<"chunk_">> \o Digits(i)

\* f"chunk_{i:04d}"
FormatChunkId(i) == <<"chunk_">> \o ZeroPad(Digits(i), 4)

\* the pages whose half-open range intersects [chunk_start, chunk_end)
ChunkPages(chunk_start, chunk_end, boundaries) ==
    LET hit == SelectSeq(boundaries,
                         LAMBDA b : chunk_start < b[2] /\ chunk_end > b[1])
    IN [k \in 1..Len(hit) |-> hit[k][3]]

DocumentChunk(i, chunk_text, chunk_pages, total) ==
    [chunk_id |-> FormatChunkId(i),
     content |-> chunk_text,
     page_numbers |-> IF chunk_pages = <<>> THEN <<1>> ELSE chunk_pages,
     section_title |-> NoneValue,
     chunk_index |-> i,
     total_chunks |-> total]

RECURSIVE CombinePages(_, _, _, _)
\* full_text and page_boundaries (start_char, end_char, page_num) of the
\* pages from position k on, empty pages skipped
CombinePages(pgs, k, text, bounds) ==
    IF k > Len(pgs) THEN [full_text |-> text, page_boundaries |-> bounds]
    ELSE IF pgs[k][2] = <<>> THEN CombinePages(pgs, k + 1, text, bounds)
    ELSE LET text1 == text \o pgs[k][2] \o <<LF, LF>>
         IN CombinePages(pgs, k + 1, text1,
                         Append(bounds, <<Len(text), Len(text1), pgs[k][1]>>))

\* ------------------------------------------------------- extracted pages
Texts == UNION {[1..n -> Alphabet] : n \in 0..MaxTextLen}

\* page texts as extract_text_pypdf / extract_text_pdfplumber return them
\* (text.strip(), possibly empty)
StrippedTexts == {t \in Texts : Strip(t) = t}

RECURSIVE TextLists(_, _)
\* the lists of n page texts of at most budget characters in all
TextLists(n, budget) ==
    IF n = 0 THEN {<<>>}
    ELSE UNION {{<<t>> \o rest : rest \in TextLists(n - 1, budget - Len(t))} :
                t \in {u \in StrippedTexts : Len(u) <= budget}}

\* (page_number, text) tuples, pages numbered from 1 in document order
PageLists ==
    UNION {{[k \in 1..n |-> <<k, ts[k]>>] : ts \in TextLists(n, MaxTextLen)} :
           n \in 0..MaxPages}

\* PDFProcessor(chunk_size, chunk_overlap)
ChunkingConfigs ==
    {[chunk_size |-> n, chunk_overlap |-> o] : n \in {2, 3}, o \in {0, 1}}

\* ------------------------------------------------------ EmbeddingsClient
\* stop=stop_after_attempt(3)
StopAfterAttempt == 3

\* default batch_size of get_embeddings_batch
EmbedBatchSize == 16

\* vector the embedding model returns for a text (opaque, one per text)
EmbeddingOf(text) == <<"embedding", text>>

\* response.data of embeddings.create(input=batch): one item per input, in
\* input order
EmbeddingsCreate(batch) == [k \in 1..Len(batch) |-> EmbeddingOf(batch[k])]
\* a slice that stops one element early
BatchSliceShort(ts, lo, size) ==
    SubSeq(ts, lo + 1, IF lo + size - 1 < Len(ts) THEN lo + size - 1 ELSE Len(ts))

\* texts[i : i + batch_size]
BatchSlice(ts, lo, size) ==
    SubSeq(ts, lo + 1, IF lo + size < Len(ts) THEN lo + size ELSE Len(ts))

\* inputs of a direct get_embeddings_batch call
EmbedTexts == UNION {[1..n -> {<<"a">>, <<".">>, <<"a", " ", "a">>}] : n \in 0..MaxTexts}

\* ------------------------------------------------------------- config.py
Unset == "unset"

\* required_vars of validate_config, in order
RequiredVars ==
    <<"AZURE_OPENAI_ENDPOINT", "AZURE_OPENAI_EMBEDDING_DEPLOYMENT",
      "AZURE_OPENAI_CHAT_DEPLOYMENT", "AZURE_SEARCH_ENDPOINT",
      "AZURE_SEARCH_API_KEY">>

EnvVars ==
    {RequiredVars[k] : k \in 1..Len(RequiredVars)}
        \cup {"AZURE_OPENAI_API_KEY", "USE_MANAGED_IDENTITY"}

\* the process environment after load_dotenv(): each variable unset or set
Environments ==
    {e \in [EnvVars -> {Unset, "value", "false"}] :
        /\ e["USE_MANAGED_IDENTITY"] \in {Unset, "false"}
        /\ \A v \in EnvVars \ {"USE_MANAGED_IDENTITY"} : e[v] \in {Unset, "value"}}

\* os.getenv(name, default)
GetEnv(e, name, default) == IF e[name] = Unset THEN default ELSE e[name]
\* validation that stops at the first missing variable
ValidateConfigFailFast(e) ==
    LET missing == SelectSeq(RequiredVars, LAMBDA v : GetEnv(e, v, "") = "")
    IN IF missing = <<>> THEN <<>> ELSE << <<"Missing", missing[1]>> >>

\* validate_config(): "Missing <var>" for each required variable that is
\* unset or empty, in the order of required_vars
ValidateConfig(e) ==
    LET missing == SelectSeq(RequiredVars, LAMBDA v : GetEnv(e, v, "") = "")
    IN [k \in 1..Len(missing) |-> <<"Missing", missing[k]>>]

\* get_openai_config().use_managed_identity
UseManagedIdentity(e) == GetEnv(e, "USE_MANAGED_IDENTITY", "true") = "true"

\* the environment variables without a default that the service clients
\* read when they are constructed: EmbeddingsClient and RAGPipeline read the
\* OpenAI configuration, and the static key when managed identity is off;
\* SearchService reads the search endpoint and key
ClientSettings(e) ==
    {"AZURE_OPENAI_ENDPOINT", "AZURE_OPENAI_EMBEDDING_DEPLOYMENT",
     "AZURE_OPENAI_CHAT_DEPLOYMENT", "AZURE_SEARCH_ENDPOINT", "AZURE_SEARCH_API_KEY"}
        \cup (IF UseManagedIdentity(e) THEN {} ELSE {"AZURE_OPENAI_API_KEY"})

\* --------------------------------------------------------- search_client.py
\* batch_size of index_chunks
UploadBatchSize == 100

\* get_index_schema(index_name)
IndexSchema == [key |-> "chunk_id", vector_search_dimensions |-> 1536]

\* the search document index_chunks builds for one chunk
SearchDocument(chunk, embedding, document_name, timestamp) ==
    [chunk_id |-> chunk.chunk_id,
     content |-> chunk.content,
     content_vector |-> embedding,
     page_numbers |-> chunk.page_numbers,
     section_title |-> IF chunk.section_title = NoneValue THEN "" ELSE chunk.section_title,
     chunk_index |-> chunk.chunk_index,
     document_name |-> document_name,
     indexed_at |-> timestamp]

\* [doc for chunk, embedding in zip(chunks, embeddings)]
ZipDocuments(cs, es, document_name, timestamp) ==
    [k \in 1..(IF Len(cs) < Len(es) THEN Len(cs) ELSE Len(es)) |->
        SearchDocument(cs[k], es[k], document_name, timestamp)]

\* the chunk_ids of a list of documents or chunks, in order
ChunkIds(docs) == [k \in 1..Len(docs) |-> docs[k].chunk_id]
\* an upload that adds the batch to the index without regard to the key
UploadAppend(held, batch) == held \o batch

\* upload_documents(batch) as the search service applies it: the key field
\* is chunk_id, a document whose key the index already holds replaces the
\* held one, any other document of the index is left as it is
UploadDocuments(held, batch) ==
    SelectSeq(held, LAMBDA d : \A k \in 1..Len(batch) : batch[k].chunk_id # d.chunk_id)
        \o batch

\* -------------------------------------------------------- index_document.py
\* list(processor.chunk_document(pdf_path)) of a document that yields n
\* chunks, chunk k holding the text of page k
DocumentChunks(n) ==
    [k \in 1..n |-> DocumentChunk(k - 1, <<"page">> \o Digits(k), <<k>>, n)]

\* ---------------------------------------------------------- rag_pipeline.py
NotFoundAnswer == "I couldn't find relevant information in the documentation"

\* thresholds of the confidence heuristic, in thousandths
HighThreshold == 30
MediumThreshold == 20
\* the heuristic with inclusive thresholds
ConfidenceInclusive(top_score) ==
    IF top_score >= HighThreshold THEN "high"
    ELSE IF top_score >= MediumThreshold THEN "medium"
    ELSE "low"

\* confidence label of a top score
Confidence(top_score) ==
    IF top_score > HighThreshold THEN "high"
    ELSE IF top_score > MediumThreshold THEN "medium"
    ELSE "low"

\* sources built from the matches, in ranked order
Sources(matches) ==
    [k \in 1..Len(matches) |->
        [pages |-> matches[k].page_numbers,
         section |-> matches[k].section_title,
         relevance_score |-> matches[k].score]]
\* the content passed on as it is
ContentAsIs(content) == content

\* response.choices[0].message.content or ""
ContentOrEmpty(content) == IF content = NoneValue THEN "" ELSE content

\* RAGResponse of a query whose search returned matches and whose
\* completion call returned content
GeneratedResponse(matches, content) ==
    [answer |-> ContentOrEmpty(content),
     sources |-> Sources(matches),
     confidence |-> Confidence(IF matches # <<>> THEN matches[1].score ELSE 0)]

\* RAGResponse of a query whose search returned nothing
NotFoundResponse == [answer |-> NotFoundAnswer, sources |-> <<>>, confidence |-> "low"]

\* relevance scores the search service may report, in thousandths
Scores == {10, 20, 25, 30, 50}

\* result lists of hybrid_search: at most MaxMatches matches, best first
MatchLists ==
    UNION {{[k \in 1..n |->
                [chunk_id |-> FormatChunkId(k), content |-> <<"page">> \o Digits(k),
                 page_numbers |-> <<k>>, section_title |-> "", score |-> sc[k]]] :
            sc \in {f \in [1..n -> Scores] : \A k \in 1..(n - 1) : f[k] >= f[k + 1]}} :
           n \in 0..MaxMatches}

UserQueries == {"How do I reset the gateway?", "What do the LED lights mean?"}

\* what the completion call may return as message content
Completions == {"generated answer", "", NoneValue}

\* ------------------------------------------------------------------- app.py
\* f"{score:.2f}" of a score in thousandths, as hundredths
TwoDecimals(score) == (score + 5) \div 10

\* format_sources(sources): one citation per source, "" when there is none
FormatSources(sources) ==
    IF sources = <<>> THEN ""
    ELSE [k \in 1..Len(sources) |->
            [source |-> k, pages |-> sources[k].pages,
             section |-> sources[k].section,
             relevance |-> TwoDecimals(sources[k].relevance_score)]]

\* ------------------------------------------------------------------ state
VARIABLES
    cpc,              \* chunk_document: "idle", "start", "loop", "done"
    pages,            \* result of extract_with_fallback
    splitter,         \* chunk_size / chunk_overlap of the text splitter
    full_text,
    page_boundaries,
    chunks,           \* split_text(full_text)
    total_chunks,
    i,                \* loop index of chunk_document
    char_pos,
    emitted,          \* DocumentChunks yielded so far
    epc,              \* get_embeddings_batch: "idle", "loop", "returned", "raised"
    texts,            \* argument of get_embeddings_batch
    batch_size,
    batch_start,      \* loop variable i of get_embeddings_batch
    all_embeddings,
    attempts,         \* provider attempts made for the current embedding request
    requests,         \* batches sent to embeddings.create, in order
    entry,            \* the program run: "index_document", "app", or "none"
    env,              \* environment variables
    validated,        \* validate_config has run
    errors,           \* its result
    clients,          \* service clients constructed so far
    calls,            \* services contacted by the current run or query, in order
    ipc,              \* index_document.main: position
    pdf_exists,
    doc_chunks,       \* chunks of main
    embeddings,       \* embeddings of main
    documents,        \* documents of index_chunks
    upload_start,     \* loop variable i of index_chunks
    uploaded,         \* documents sent by upload_documents, in order
    indexes,          \* schemas the search service holds for the index name
    failed_step,      \* step of main whose exception ended the run, "" if none
    qpc,              \* RAGPipeline.query: "idle", "embed", "search", "generate",
                      \* "returned", "raised"
    user_query,
    query_embedding,
    matches,          \* chunks of query
    response,         \* RAGResponse returned by query
    messages,         \* st.session_state.messages
    rag_pipeline,     \* st.session_state.rag_pipeline
    pdf,              \* number of chunks the PDF at pdf_path yields
    store,            \* documents the search index holds
    run,              \* ordinal of the current script run, its clock reading
    run_log           \* what the earlier runs of the script left behind

cvars == <<cpc, pages, splitter, full_text, page_boundaries, chunks,
           total_chunks, i, char_pos, emitted>>

evars == <<epc, texts, batch_size, batch_start, all_embeddings, attempts, requests>>

gvars == <<entry, env, validated, errors, clients>>

ivars == <<ipc, pdf_exists, doc_chunks, embeddings, documents, upload_start,
           uploaded, indexes, failed_step>>

qvars == <<qpc, user_query, query_embedding, matches, response>>

avars == <<messages, rag_pipeline>>

svars == <<pdf, store, run, run_log>>

vars == <<cvars, evars, gvars, calls, ivars, qvars, avars, svars>>

\* ----------------------------------------------- PDFProcessor.chunk_document
ChunkIdle ==
    /\ cpc = "idle"
    /\ pages = <<>>
    /\ splitter = [chunk_size |-> 1000, chunk_overlap |-> 200]
    /\ full_text = <<>>
    /\ page_boundaries = <<>>
    /\ chunks = <<>>
    /\ total_chunks = 0
    /\ i = 0
    /\ char_pos = 0
    /\ emitted = <<>>

\* lines 103-122: combine the pages, split, start the loop
ChunkStart ==
    /\ cpc = "start"
    /\ LET c == CombinePages(pages, 1, <<>>, <<>>)
           split == SplitText(c.full_text, splitter)
       IN /\ full_text' = c.full_text
          /\ page_boundaries' = c.page_boundaries
          /\ chunks' = split
          /\ total_chunks' = Len(split)
    /\ i' = 0
    /\ char_pos' = 0
    /\ cpc' = "loop"
    /\ UNCHANGED <<pages, splitter, emitted>>
    /\ UNCHANGED <<evars, gvars, calls, ivars, qvars, avars, svars>>

\* lines 123-144: one iteration, locating the chunk and yielding it
ChunkYield ==
    /\ cpc = "loop"
    /\ i < Len(chunks)
    /\ LET chunk_text == chunks[i + 1]
           found == Find(full_text, chunk_text, char_pos)
           chunk_start == IF found = -1 THEN char_pos ELSE found
           chunk_end == chunk_start + Len(chunk_text)
           chunk_pages == ChunkPages(chunk_start, chunk_end, page_boundaries)
       IN /\ emitted' = Append(emitted,
                               DocumentChunk(i, chunk_text, chunk_pages, total_chunks))
          /\ char_pos' = chunk_start + 1
    /\ i' = i + 1
    /\ UNCHANGED <<cpc, pages, splitter, full_text, page_boundaries, chunks,
                   total_chunks>>
    /\ UNCHANGED <<evars, gvars, calls, ivars, qvars, avars, svars>>

\* the loop is exhausted: the generator returns
ChunkExhausted ==
    /\ cpc = "loop"
    /\ i >= Len(chunks)
    /\ cpc' = "done"
    /\ UNCHANGED <<pages, splitter, full_text, page_boundaries, chunks,
                   total_chunks, i, char_pos, emitted>>
    /\ UNCHANGED <<evars, gvars, calls, ivars, qvars, avars, svars>>

\* ---------------------------------- EmbeddingsClient.get_embeddings_batch
EmbedIdle ==
    /\ epc = "idle"
    /\ texts = <<>>
    /\ batch_size = EmbedBatchSize
    /\ batch_start = 0
    /\ all_embeddings = <<>>
    /\ attempts = 0
    /\ requests = <<>>

\* lines 74-81, the request succeeds: the embeddings of the sub-batch are
\* appended and the loop moves on
EmbedBatchOk ==
    /\ epc = "loop"
    /\ batch_start < Len(texts)
    /\ LET batch == BatchSlice(texts, batch_start, batch_size)
       IN /\ requests' = Append(requests, batch)
          /\ all_embeddings' = all_embeddings \o EmbeddingsCreate(batch)
    /\ attempts' = 1
    /\ calls' = Append(calls, "embeddings")
    /\ batch_start' = batch_start + batch_size
    /\ UNCHANGED <<epc, texts, batch_size>>
    /\ UNCHANGED <<cvars, gvars, ivars, qvars, avars, svars>>

\* lines 76-79, the request fails: the exception leaves get_embeddings_batch
EmbedBatchFail ==
    /\ epc = "loop"
    /\ batch_start < Len(texts)
    /\ requests' = Append(requests, BatchSlice(texts, batch_start, batch_size))
    /\ attempts' = 1
    /\ calls' = Append(calls, "embeddings")
    /\ epc' = "raised"
    /\ UNCHANGED <<texts, batch_size, batch_start, all_embeddings>>
    /\ UNCHANGED <<cvars, gvars, ivars, qvars, avars, svars>>

\* line 83: return all_embeddings
EmbedBatchReturn ==
    /\ epc = "loop"
    /\ batch_start >= Len(texts)
    /\ epc' = "returned"
    /\ UNCHANGED <<texts, batch_size, batch_start, all_embeddings, attempts, requests>>
    /\ UNCHANGED <<cvars, gvars, calls, ivars, qvars, avars, svars>>

\* ------------------------------------------------- index_document.py main
IndexIdle ==
    /\ ipc = "idle"
    /\ pdf_exists = FALSE
    /\ doc_chunks = <<>>
    /\ embeddings = <<>>
    /\ documents = <<>>
    /\ upload_start = 0
    /\ uploaded = <<>>
    /\ indexes = {}
    /\ failed_step = ""

\* lines 17-25: validate the configuration, exit(1) on any error
IndexValidate ==
    /\ ipc = "validate"
    /\ validated' = TRUE
    /\ errors' = ValidateConfig(env)
    /\ ipc' = IF ValidateConfig(env) # <<>> THEN "exit" ELSE "paths"
    /\ UNCHANGED <<entry, env, clients, calls>>
    /\ UNCHANGED <<pdf_exists, doc_chunks, embeddings, documents, upload_start,
                   uploaded, indexes, failed_step>>
    /\ UNCHANGED <<cvars, evars, qvars, avars, svars>>

\* lines 27-39: exit(1) when the PDF is missing, else build the processor
\* and the two service clients
IndexInit ==
    /\ ipc = "paths"
    /\ IF pdf_exists
       THEN /\ clients' = {"PDFProcessor", "EmbeddingsClient", "SearchService"}
            /\ ipc' = "create_index"
       ELSE /\ clients' = clients
            /\ ipc' = "exit"
    /\ UNCHANGED <<entry, env, validated, errors, calls>>
    /\ UNCHANGED <<pdf_exists, doc_chunks, embeddings, documents, upload_start,
                   uploaded, indexes, failed_step>>
    /\ UNCHANGED <<cvars, evars, qvars, avars, svars>>

\* lines 41-45: create_or_update_index succeeds
IndexCreateIndex ==
    /\ ipc = "create_index"
    /\ calls' = Append(calls, "create_or_update_index")
    /\ indexes' = {IndexSchema}
    /\ ipc' = "chunk"
    /\ UNCHANGED <<pdf_exists, doc_chunks, embeddings, documents, upload_start,
                   uploaded, failed_step>>
    /\ UNCHANGED <<cvars, evars, gvars, qvars, avars, svars>>

\* line 43: create_or_update_index raises
IndexCreateIndexFail ==
    /\ ipc = "create_index"
    /\ calls' = Append(calls, "create_or_update_index")
    /\ failed_step' = "create_index"
    /\ ipc' = "exit"
    /\ UNCHANGED <<pdf_exists, doc_chunks, embeddings, documents, upload_start,
                   uploaded, indexes>>
    /\ UNCHANGED <<cvars, evars, gvars, qvars, avars, svars>>

\* lines 47-55: extract and chunk the PDF
IndexChunk ==
    /\ ipc = "chunk"
    /\ doc_chunks' = DocumentChunks(pdf)
    /\ ipc' = "embed_call"
    /\ UNCHANGED <<pdf_exists, embeddings, documents, upload_start, uploaded,
                   indexes, failed_step>>
    /\ UNCHANGED <<cvars, evars, gvars, calls, qvars, avars, svars>>

\* line 49: extraction raises
IndexChunkFail ==
    /\ ipc = "chunk"
    /\ failed_step' = "chunk"
    /\ ipc' = "exit"
    /\ UNCHANGED <<pdf_exists, doc_chunks, embeddings, documents, upload_start,
                   uploaded, indexes>>
    /\ UNCHANGED <<cvars, evars, gvars, calls, qvars, avars, svars>>

\* lines 57-60: call get_embeddings_batch(texts) with the default batch size
IndexEmbedCall ==
    /\ ipc = "embed_call"
    /\ texts' = [k \in 1..Len(doc_chunks) |-> doc_chunks[k].content]
    /\ batch_size' = EmbedBatchSize
    /\ batch_start' = 0
    /\ all_embeddings' = <<>>
    /\ requests' = <<>>
    /\ epc' = "loop"
    /\ ipc' = "embed"
    /\ UNCHANGED attempts
    /\ UNCHANGED <<pdf_exists, doc_chunks, embeddings, documents, upload_start,
                   uploaded, indexes, failed_step>>
    /\ UNCHANGED <<cvars, gvars, calls, qvars, avars, svars>>

\* lines 60-62: get_embeddings_batch returned
IndexEmbedReturned ==
    /\ ipc = "embed"
    /\ epc = "returned"
    /\ embeddings' = all_embeddings
    /\ epc' = "idle"
    /\ ipc' = "index_call"
    /\ UNCHANGED <<texts, batch_size, batch_start, all_embeddings, attempts, requests>>
    /\ UNCHANGED <<pdf_exists, doc_chunks, documents, upload_start, uploaded,
                   indexes, failed_step>>
    /\ UNCHANGED <<cvars, gvars, calls, qvars, avars, svars>>

\* a main that goes on to the upload with the embeddings made so far
IndexEmbedRaisedSwallowed ==
    /\ ipc = "embed"
    /\ epc = "raised"
    /\ embeddings' = all_embeddings
    /\ failed_step' = "embed"
    /\ ipc' = "index_call"
    /\ UNCHANGED evars
    /\ UNCHANGED <<pdf_exists, doc_chunks, documents, upload_start, uploaded, indexes>>
    /\ UNCHANGED <<cvars, gvars, calls, qvars, avars, svars>>

\* line 60: get_embeddings_batch raised, the exception ends main
IndexEmbedRaised ==
    /\ ipc = "embed"
    /\ epc = "raised"
    /\ failed_step' = "embed"
    /\ ipc' = "exit"
    /\ UNCHANGED evars
    /\ UNCHANGED <<pdf_exists, doc_chunks, embeddings, documents, upload_start,
                   uploaded, indexes>>
    /\ UNCHANGED <<cvars, gvars, calls, qvars, avars, svars>>

\* index_chunks lines 147-164: zip chunks and embeddings into documents
IndexBuildDocuments ==
    /\ ipc = "index_call"
    /\ documents' = ZipDocuments(doc_chunks, embeddings,
                                 "T-Mobile 5G Gateway User Guide", run)
    /\ upload_start' = 0
    /\ ipc' = "upload"
    /\ UNCHANGED <<pdf_exists, doc_chunks, embeddings, uploaded, indexes, failed_step>>
    /\ UNCHANGED <<cvars, evars, gvars, calls, qvars, avars, svars>>
\* an upload loop that sends the whole document list in every iteration
IndexUploadBatchWhole ==
    /\ ipc = "upload"
    /\ upload_start < Len(documents)
    /\ uploaded' = uploaded \o documents
    /\ store' = UploadDocuments(store, documents)
    /\ calls' = Append(calls, "upload_documents")
    /\ upload_start' = upload_start + UploadBatchSize
    /\ UNCHANGED <<ipc, pdf_exists, doc_chunks, embeddings, documents, indexes,
                   failed_step>>
    /\ UNCHANGED <<pdf, run, run_log>>
    /\ UNCHANGED <<cvars, evars, gvars, qvars, avars>>

\* index_chunks lines 165-167: upload one batch
IndexUploadBatch ==
    /\ ipc = "upload"
    /\ upload_start < Len(documents)
    /\ LET batch == BatchSlice(documents, upload_start, UploadBatchSize)
       IN /\ uploaded' = uploaded \o batch
          /\ store' = UploadDocuments(store, batch)
    /\ calls' = Append(calls, "upload_documents")
    /\ upload_start' = upload_start + UploadBatchSize
    /\ UNCHANGED <<ipc, pdf_exists, doc_chunks, embeddings, documents, indexes,
                   failed_step>>
    /\ UNCHANGED <<pdf, run, run_log>>
    /\ UNCHANGED <<cvars, evars, gvars, qvars, avars>>

\* index_chunks line 167: upload_documents raises
IndexUploadFail ==
    /\ ipc = "upload"
    /\ upload_start < Len(documents)
    /\ calls' = Append(calls, "upload_documents")
    /\ failed_step' = "upload"
    /\ ipc' = "exit"
    /\ UNCHANGED <<pdf_exists, doc_chunks, embeddings, documents, upload_start,
                   uploaded, indexes>>
    /\ UNCHANGED <<cvars, evars, gvars, qvars, avars, svars>>

\* lines 71-80: index_chunks returned, print the summary
IndexDone ==
    /\ ipc = "upload"
    /\ upload_start >= Len(documents)
    /\ ipc' = "done"
    /\ UNCHANGED <<pdf_exists, doc_chunks, embeddings, documents, upload_start,
                   uploaded, indexes, failed_step>>
    /\ UNCHANGED <<cvars, evars, gvars, calls, qvars, avars, svars>>

\* the script is started again after a run has ended: main starts afresh,
\* the index and its documents are what the earlier runs left in the service
IndexRerun ==
    /\ entry = "index_document"
    /\ ipc \in {"done", "exit"}
    /\ run < MaxRuns
    /\ run' = run + 1
    /\ run_log' = Append(run_log,
                         [outcome |-> ipc, chunks |-> doc_chunks, schema |-> indexes,
                          chunk_ids |-> ChunkIds(uploaded), count |-> Len(store)])
    /\ ipc' = "validate"
    /\ validated' = FALSE
    /\ errors' = <<>>
    /\ clients' = {}
    /\ calls' = <<>>
    /\ doc_chunks' = <<>>
    /\ embeddings' = <<>>
    /\ documents' = <<>>
    /\ upload_start' = 0
    /\ uploaded' = <<>>
    /\ failed_step' = ""
    /\ epc' = "idle"
    /\ texts' = <<>>
    /\ batch_size' = EmbedBatchSize
    /\ batch_start' = 0
    /\ all_embeddings' = <<>>
    /\ attempts' = 0
    /\ requests' = <<>>
    /\ UNCHANGED <<entry, env, pdf_exists, indexes, pdf, store>>
    /\ UNCHANGED <<cvars, qvars, avars>>

\* between two runs the PDF at pdf_path is replaced by another document
PdfReplaced ==
    /\ entry = "index_document"
    /\ ipc \in {"done", "exit"}
    /\ pdf_exists
    /\ \E n \in 0..MaxDocChunks : n # pdf /\ pdf' = n
    /\ UNCHANGED <<store, run, run_log>>
    /\ UNCHANGED <<cvars, evars, gvars, calls, ivars, qvars, avars>>

\* --------------------------------------------------------- RAGPipeline.query
QueryIdle ==
    /\ qpc = "idle"
    /\ user_query = ""
    /\ query_embedding = <<>>
    /\ matches = <<>>
    /\ response = NoneValue

\* get_embedding, one attempt that succeeds: retrieve goes on to the search
QueryEmbedOk ==
    /\ qpc = "embed"
    /\ attempts < StopAfterAttempt
    /\ attempts' = attempts + 1
    /\ calls' = Append(calls, "embeddings")
    /\ query_embedding' = EmbeddingOf(user_query)
    /\ qpc' = "search"
    /\ UNCHANGED <<user_query, matches, response>>
    /\ UNCHANGED <<epc, texts, batch_size, batch_start, all_embeddings, requests>>
    /\ UNCHANGED <<cvars, gvars, ivars, avars, svars>>
\* get_embedding without the retry: the first failure is raised
QueryEmbedFailNoRetry ==
    /\ qpc = "embed"
    /\ attempts < StopAfterAttempt
    /\ attempts' = attempts + 1
    /\ calls' = Append(calls, "embeddings")
    /\ qpc' = "raised"
    /\ UNCHANGED <<user_query, query_embedding, matches, response>>
    /\ UNCHANGED <<epc, texts, batch_size, batch_start, all_embeddings, requests>>
    /\ UNCHANGED <<cvars, gvars, ivars, avars, svars>>

\* get_embedding, one attempt that fails: retried until the third failure,
\* which leaves get_embedding, retrieve and query as an exception
QueryEmbedFail ==
    /\ qpc = "embed"
    /\ attempts < StopAfterAttempt
    /\ attempts' = attempts + 1
    /\ calls' = Append(calls, "embeddings")
    /\ qpc' = IF attempts + 1 >= StopAfterAttempt THEN "raised" ELSE "embed"
    /\ UNCHANGED <<user_query, query_embedding, matches, response>>
    /\ UNCHANGED <<epc, texts, batch_size, batch_start, all_embeddings, requests>>
    /\ UNCHANGED <<cvars, gvars, ivars, avars, svars>>
\* a search step without the short-circuit on an empty result
QuerySearchNoShortCircuit ==
    /\ qpc = "search"
    /\ calls' = Append(calls, "search")
    /\ \E found \in MatchLists : matches' = found
    /\ response' = response
    /\ qpc' = "generate"
    /\ UNCHANGED <<user_query, query_embedding>>
    /\ UNCHANGED <<cvars, evars, gvars, ivars, avars, svars>>

\* retrieve lines 82-87 and query lines 140-150: the hybrid search returns;
\* with no match query returns the not-found response
QuerySearch ==
    /\ qpc = "search"
    /\ calls' = Append(calls, "search")
    /\ \E found \in MatchLists :
          /\ matches' = found
          /\ IF found = <<>>
             THEN /\ response' = NotFoundResponse
                  /\ qpc' = "returned"
             ELSE /\ response' = response
                  /\ qpc' = "generate"
    /\ UNCHANGED <<user_query, query_embedding>>
    /\ UNCHANGED <<cvars, evars, gvars, ivars, avars, svars>>

\* retrieve line 82: the hybrid search raises
QuerySearchFail ==
    /\ qpc = "search"
    /\ calls' = Append(calls, "search")
    /\ qpc' = "raised"
    /\ UNCHANGED <<user_query, query_embedding, matches, response>>
    /\ UNCHANGED <<cvars, evars, gvars, ivars, avars, svars>>

\* query lines 152-180: the completion call returns; sources and confidence
\* are derived and the response returned
QueryGenerate ==
    /\ qpc = "generate"
    /\ calls' = Append(calls, "chat.completions")
    /\ \E content \in Completions : response' = GeneratedResponse(matches, content)
    /\ qpc' = "returned"
    /\ UNCHANGED <<user_query, query_embedding, matches>>
    /\ UNCHANGED <<cvars, evars, gvars, ivars, avars, svars>>

\* a completion call that is tried a second time after a failure
QueryGenerateFailRetry ==
    /\ qpc = "generate"
    /\ calls' = Append(calls, "chat.completions")
    /\ qpc' = IF calls[Len(calls)] = "chat.completions" THEN "raised" ELSE "generate"
    /\ UNCHANGED <<user_query, query_embedding, matches, response>>
    /\ UNCHANGED <<cvars, evars, gvars, ivars, avars, svars>>

\* generate line 119: the completion call raises
QueryGenerateFail ==
    /\ qpc = "generate"
    /\ calls' = Append(calls, "chat.completions")
    /\ qpc' = "raised"
    /\ UNCHANGED <<user_query, query_embedding, matches, response>>
    /\ UNCHANGED <<cvars, evars, gvars, ivars, avars, svars>>

\* ------------------------------------------------------------------- app.py
AppIdle ==
    /\ messages = <<>>
    /\ rag_pipeline = NoneValue

\* main lines 107-112 with load_pipeline lines 26-30: configuration errors,
\* no pipeline, st.stop()
AppLoadConfigErrors ==
    /\ entry = "app"
    /\ rag_pipeline = NoneValue
    /\ ValidateConfig(env) # <<>>
    /\ validated' = TRUE
    /\ errors' = ValidateConfig(env)
    /\ UNCHANGED <<entry, env, clients, calls>>
    /\ UNCHANGED <<cvars, evars, ivars, qvars, avars, svars>>

\* load_pipeline lines 32-33: RAGPipeline() builds its three clients
AppLoadPipeline ==
    /\ entry = "app"
    /\ rag_pipeline = NoneValue
    /\ ValidateConfig(env) = <<>>
    /\ validated' = TRUE
    /\ errors' = ValidateConfig(env)
    /\ clients' = {"EmbeddingsClient", "SearchService", "AzureOpenAI"}
    /\ rag_pipeline' = "RAGPipeline"
    /\ UNCHANGED <<entry, env, calls, messages>>
    /\ UNCHANGED <<cvars, evars, ivars, qvars, svars>>

\* load_pipeline lines 34-36: RAGPipeline() raises, no pipeline, st.stop()
AppLoadPipelineFail ==
    /\ entry = "app"
    /\ rag_pipeline = NoneValue
    /\ ValidateConfig(env) = <<>>
    /\ validated' = TRUE
    /\ errors' = ValidateConfig(env)
    /\ UNCHANGED <<entry, env, clients, calls>>
    /\ UNCHANGED <<cvars, evars, ivars, qvars, avars, svars>>

\* main lines 99-104: Clear Chat History
AppClearChat ==
    /\ entry = "app"
    /\ qpc = "idle"
    /\ messages # <<>>
    /\ messages' = <<>>
    /\ UNCHANGED rag_pipeline
    /\ UNCHANGED <<cvars, evars, gvars, calls, ivars, qvars, svars>>

\* main lines 122-143: a question arrives, the user message is stored and
\* query is called
AppSubmitQuery ==
    /\ entry = "app"
    /\ rag_pipeline # NoneValue
    /\ qpc = "idle"
    /\ Len(messages) + 2 <= MaxMessages
    /\ \E q \in UserQueries :
          /\ messages' = Append(messages, [role |-> "user", content |-> q])
          /\ user_query' = q
    /\ qpc' = "embed"
    /\ attempts' = 0
    /\ calls' = <<>>
    /\ query_embedding' = <<>>
    /\ matches' = <<>>
    /\ response' = NoneValue
    /\ UNCHANGED rag_pipeline
    /\ UNCHANGED <<epc, texts, batch_size, batch_start, all_embeddings, requests>>
    /\ UNCHANGED <<cvars, gvars, ivars, svars>>

\* main lines 149-174: the answer and its sources are shown and the
\* assistant message stored; the script run ends, its locals are gone
AppShowResponse ==
    /\ entry = "app"
    /\ qpc = "returned"
    /\ messages' = Append(messages,
                          [role |-> "assistant", content |-> response.answer,
                           sources |-> FormatSources(response.sources)])
    /\ qpc' = "idle"
    /\ user_query' = ""
    /\ query_embedding' = <<>>
    /\ matches' = <<>>
    /\ response' = NoneValue
    /\ attempts' = 0
    /\ calls' = <<>>
    /\ UNCHANGED rag_pipeline
    /\ UNCHANGED <<epc, texts, batch_size, batch_start, all_embeddings, requests>>
    /\ UNCHANGED <<cvars, gvars, ivars, svars>>

\* a failure that throws the session state away
AppQueryErrorEndsSession ==
    /\ entry = "app"
    /\ qpc = "raised"
    /\ qpc' = "idle"
    /\ user_query' = ""
    /\ query_embedding' = <<>>
    /\ matches' = <<>>
    /\ response' = NoneValue
    /\ attempts' = 0
    /\ calls' = <<>>
    /\ messages' = <<>>
    /\ rag_pipeline' = NoneValue
    /\ UNCHANGED <<epc, texts, batch_size, batch_start, all_embeddings, requests>>
    /\ UNCHANGED <<cvars, gvars, ivars, svars>>

\* main lines 144-147: query raised, the error is shown and st.stop() ends
\* the script run
AppQueryError ==
    /\ entry = "app"
    /\ qpc = "raised"
    /\ qpc' = "idle"
    /\ user_query' = ""
    /\ query_embedding' = <<>>
    /\ matches' = <<>>
    /\ response' = NoneValue
    /\ attempts' = 0
    /\ calls' = <<>>
    /\ UNCHANGED <<epc, texts, batch_size, batch_start, all_embeddings, requests>>
    /\ UNCHANGED <<cvars, gvars, ivars, avars, svars>>

\* ---------------------------------------------------------- specifications
\* a search service that holds no document yet, before the first run
StoreEmpty ==
    /\ store = <<>>
    /\ run = 1
    /\ run_log = <<>>

\* chunk_document run on any extracted document
ChunkInit ==
    /\ cpc = "start"
    /\ pages \in PageLists
    /\ splitter \in {c \in ChunkingConfigs : c.chunk_overlap < c.chunk_size}
    /\ full_text = <<>>
    /\ page_boundaries = <<>>
    /\ chunks = <<>>
    /\ total_chunks = 0
    /\ i = 0
    /\ char_pos = 0
    /\ emitted = <<>>
    /\ EmbedIdle
    /\ entry = "none"
    /\ env = [v \in EnvVars |-> Unset]
    /\ validated = FALSE
    /\ errors = <<>>
    /\ clients = {}
    /\ calls = <<>>
    /\ IndexIdle
    /\ QueryIdle
    /\ AppIdle
    /\ pdf = 0
    /\ StoreEmpty

ChunkNext == ChunkStart \/ ChunkYield \/ ChunkExhausted

SpecChunk == ChunkInit /\ [][ChunkNext]_vars

\* get_embeddings_batch called with any texts and batch size
EmbedInit ==
    /\ ChunkIdle
    /\ epc = "loop"
    /\ texts \in EmbedTexts
    /\ batch_size \in 1..MaxBatchSize
    /\ batch_start = 0
    /\ all_embeddings = <<>>
    /\ attempts = 0
    /\ requests = <<>>
    /\ entry = "none"
    /\ env = [v \in EnvVars |-> Unset]
    /\ validated = FALSE
    /\ errors = <<>>
    /\ clients = {"EmbeddingsClient"}
    /\ calls = <<>>
    /\ IndexIdle
    /\ QueryIdle
    /\ AppIdle
    /\ pdf = 0
    /\ StoreEmpty

EmbedNext == EmbedBatchOk \/ EmbedBatchFail \/ EmbedBatchReturn

SpecEmbed == EmbedInit /\ [][EmbedNext]_vars

\* one run of an entry point, the indexing script or the chat application,
\* in any environment
Init ==
    /\ ChunkIdle
    /\ EmbedIdle
    /\ entry \in {"index_document", "app"}
    /\ env \in Environments
    /\ validated = FALSE
    /\ errors = <<>>
    /\ clients = {}
    /\ calls = <<>>
    /\ ipc = IF entry = "index_document" THEN "validate" ELSE "idle"
    /\ pdf_exists \in IF entry = "index_document" THEN BOOLEAN ELSE {FALSE}
    /\ doc_chunks = <<>>
    /\ embeddings = <<>>
    /\ documents = <<>>
    /\ upload_start = 0
    /\ uploaded = <<>>
    /\ indexes = {}
    /\ failed_step = ""
    /\ QueryIdle
    /\ AppIdle
    /\ pdf \in IF pdf_exists THEN 0..MaxChunks ELSE {0}
    /\ StoreEmpty

IndexNext ==
    \/ IndexValidate
    \/ IndexInit
    \/ IndexCreateIndex
    \/ IndexCreateIndexFail
    \/ IndexChunk
    \/ IndexChunkFail
    \/ IndexEmbedCall
    \/ EmbedBatchOk
    \/ EmbedBatchFail
    \/ EmbedBatchReturn
    \/ IndexEmbedReturned
    \/ IndexEmbedRaised
    \/ IndexBuildDocuments
    \/ IndexUploadBatch
    \/ IndexUploadFail
    \/ IndexDone

QueryNext ==
    \/ QueryEmbedOk
    \/ QueryEmbedFail
    \/ QuerySearch
    \/ QuerySearchFail
    \/ QueryGenerate
    \/ QueryGenerateFail

AppNext ==
    \/ AppLoadConfigErrors
    \/ AppLoadPipeline
    \/ AppLoadPipelineFail
    \/ AppClearChat
    \/ AppSubmitQuery
    \/ AppShowResponse
    \/ AppQueryError

Next == IndexNext \/ QueryNext \/ AppNext

Spec == Init /\ [][Next]_vars

\* the indexing script run up to MaxRuns times against one search service,
\* with a valid configuration, the PDF possibly replaced between runs
ReindexInit ==
    /\ ChunkIdle
    /\ EmbedIdle
    /\ entry = "index_document"
    /\ env \in {e \in Environments : ValidateConfig(e) = <<>> /\ UseManagedIdentity(e)}
    /\ validated = FALSE
    /\ errors = <<>>
    /\ clients = {}
    /\ calls = <<>>
    /\ ipc = "validate"
    /\ pdf_exists \in BOOLEAN
    /\ doc_chunks = <<>>
    /\ embeddings = <<>>
    /\ documents = <<>>
    /\ upload_start = 0
    /\ uploaded = <<>>
    /\ indexes = {}
    /\ failed_step = ""
    /\ QueryIdle
    /\ AppIdle
    /\ pdf \in IF pdf_exists THEN 0..MaxDocChunks ELSE {0}
    /\ StoreEmpty

ReindexNext == IndexNext \/ IndexRerun \/ PdfReplaced

SpecReindex == ReindexInit /\ [][ReindexNext]_vars

\* ------------------------------------------------------------------ claims
\* C3: no emitted chunk has an empty page_numbers list, and once
\* chunk_document has finished every page with non-empty text appears in the
\* page_numbers of some emitted chunk.
C3_PagesCovered ==
    /\ \A k \in 1..Len(emitted) : emitted[k].page_numbers # <<>>
    /\ cpc = "done" =>
          \A p \in 1..Len(pages) :
              pages[p][2] # <<>> =>
                  \E k \in 1..Len(emitted) :
                      \E j \in 1..Len(emitted[k].page_numbers) :
                          emitted[k].page_numbers[j] = pages[p][1]

\* C4: the k-th emitted chunk has chunk_index k-1, its chunk_id is "chunk_"
\* followed by the four decimal digits of that index, and when the run has
\* finished every chunk's total_chunks is the number of chunks emitted.
C4_ChunkOrdinals ==
    /\ \A k \in 1..Len(emitted) :
          LET c == emitted[k]
              ds == Tail(c.chunk_id)
          IN /\ c.chunk_index = k - 1
             /\ Head(c.chunk_id) = "chunk_"
             /\ Len(ds) = 4
             /\ \A j \in 1..4 : ds[j] \in 0..9
             /\ ds[1] * 1000 + ds[2] * 100 + ds[3] * 10 + ds[4] = c.chunk_index
    /\ cpc = "done" =>
          \A k \in 1..Len(emitted) : emitted[k].total_chunks = Len(emitted)

C4_Witness == cpc = "done" /\ Len(emitted) >= 3

\* C5: when get_embeddings_batch returns, its result has one element per
\* input text, element k being the embedding of texts[k]; the requests were
\* issued in input order, their concatenation being the input list, each of
\* at most batch_size texts.
C5_BatchOrder ==
    /\ epc = "returned" =>
          /\ Len(all_embeddings) = Len(texts)
          /\ \A k \in 1..Len(texts) : all_embeddings[k] = <<"embedding", texts[k]>>
          /\ Join(requests, <<>>) = texts
    /\ \A r \in 1..Len(requests) :
          /\ Len(requests[r]) \in 1..batch_size
          /\ \A k \in 1..Len(requests[r]) :
                requests[r][k] = texts[(r - 1) * batch_size + k]

C5_Witness ==
    /\ epc = "returned"
    /\ Len(requests) >= 2
    /\ Len(texts) % batch_size # 0
    /\ \E j, k \in 1..Len(texts) : texts[j] # texts[k]

\* number of calls to a service in the current run or query
CallCount(service) == Cardinality({k \in 1..Len(calls) : calls[k] = service})

ConfidenceLabels == {"high", "medium", "low"}

\* C1: a query whose hybrid search returned no match returns confidence
\* "low", no sources and the fixed not-found answer, whatever the query text,
\* and the completion service was not called during it.
C1_NoMatchShortCircuit ==
    (qpc = "returned" /\ matches = <<>>) =>
        /\ response.confidence = "low"
        /\ response.sources = <<>>
        /\ response.answer = NotFoundAnswer
        /\ CallCount("chat.completions") = 0

C1_Witness == qpc = "returned" /\ matches = <<>> /\ CallCount("search") = 1

\* C2: for a non-empty match list the confidence label of the returned
\* response is a function of the first match's score alone: "high" above
\* 0.03, "medium" above 0.02 up to 0.03, "low" up to 0.02 (scores in
\* thousandths), so 50, 25 and 10 give high, medium and low.
C2_ConfidenceFromTopScore ==
    (qpc = "returned" /\ matches # <<>>) =>
        LET top == matches[1].score
        IN /\ response.confidence \in ConfidenceLabels
           /\ response.confidence = "high" <=> top > 30
           /\ response.confidence = "medium" <=> (top > 20 /\ top <= 30)
           /\ response.confidence = "low" <=> top <= 20
           /\ top = 50 => response.confidence = "high"
           /\ top = 25 => response.confidence = "medium"
           /\ top = 10 => response.confidence = "low"

C2_Witness ==
    /\ qpc = "returned"
    /\ Len(matches) >= 2
    /\ matches[1].score = 30
    /\ matches[2].score = 10
    /\ response.confidence = "medium"

\* C6: once validate_config has run its result holds exactly one error for
\* each required variable that is missing, and in a run (indexing script or
\* app) some required variable of which is missing no client is ever
\* constructed, no pipeline loaded and no service contacted.
C6_ConfigErrorsBlockServices ==
    LET missing == {k \in 1..Len(RequiredVars) : env[RequiredVars[k]] = Unset}
    IN /\ validated =>
             /\ Len(errors) = Cardinality(missing)
             /\ \A k \in missing :
                   \E j \in 1..Len(errors) : errors[j] = <<"Missing", RequiredVars[k]>>
       /\ (entry \in {"index_document", "app"} /\ missing # {}) =>
             /\ clients = {}
             /\ calls = <<>>
             /\ rag_pipeline = NoneValue
             /\ uploaded = <<>>
             /\ qpc = "idle"

C6_Witness == validated /\ Len(errors) >= 2 /\ entry = "app"

\* C7: get_embedding makes at most 3 provider attempts; the first attempt
\* that succeeds ends the call with that text's vector and no further
\* attempt is made; after 3 failed attempts the call raises and query ends
\* in failure with neither a search nor a completion call issued.
C7_BoundedEmbeddingRetry ==
    qpc # "idle" =>
        /\ attempts <= 3
        /\ CallCount("embeddings") = attempts
        /\ \A k \in 1..attempts : calls[k] = "embeddings"
        /\ qpc = "embed" => attempts < 3 /\ Len(calls) = attempts
        /\ qpc \in {"search", "generate", "returned"} =>
              attempts >= 1 /\ query_embedding = <<"embedding", user_query>>
        /\ (qpc = "raised" /\ CallCount("search") = 0) =>
              /\ attempts = 3
              /\ Len(calls) = 3
              /\ CallCount("chat.completions") = 0

C7_Witness == qpc = "raised" /\ attempts = 3 /\ CallCount("search") = 0

\* C8: an indexing run ends on an embedding failure only after the failing
\* request was attempted 3 times, so a sub-batch failure that a later
\* attempt would overcome does not end the run.
C8_BatchFailureRetried ==
    (epc = "raised" \/ failed_step = "embed") => attempts >= 3

\* C9 as stated: a query whose completion call was made returns a response
\* only with non-empty generated content; empty content ends the query in
\* failure, and the completion call is made at most once.
C9_EmptyContentIsFailure ==
    /\ CallCount("chat.completions") <= 1
    /\ (qpc = "returned" /\ CallCount("chat.completions") = 1) => response.answer # ""

\* C9 amended: the completion call is made at most once per query; when it
\* raises, query ends in failure without a response; when it returns empty
\* content (or none), query returns a normal response whose answer is the
\* empty string, with one source per match and a confidence label.
C9_GenerationOutcome ==
    /\ CallCount("chat.completions") <= 1
    /\ (qpc = "raised" /\ CallCount("chat.completions") = 1) => response = NoneValue
    /\ (qpc = "returned" /\ CallCount("chat.completions") = 1) =>
          /\ response.answer \in {"generated answer", ""}
          /\ Len(response.sources) = Len(matches)
          /\ \A k \in 1..Len(matches) :
                response.sources[k].relevance_score = matches[k].score
          /\ response.confidence \in ConfidenceLabels

C9_Witness ==
    /\ qpc = "returned"
    /\ CallCount("chat.completions") = 1
    /\ response.answer = ""
    /\ Len(response.sources) = 2

\* C10: the documents sent to the index are, in order, one per chunk,
\* document k holding chunk k's id, content and pages and the embedding of
\* chunk k's content, and a run that finishes has sent as many documents as
\* there are chunks, also across several upload batches.
C10_EveryChunkUploadedOnce ==
    /\ Len(uploaded) <= Len(doc_chunks)
    /\ \A k \in 1..Len(uploaded) :
          k <= Len(doc_chunks) =>
              /\ uploaded[k].chunk_id = doc_chunks[k].chunk_id
              /\ uploaded[k].content = doc_chunks[k].content
              /\ uploaded[k].page_numbers = doc_chunks[k].page_numbers
              /\ uploaded[k].content_vector = <<"embedding", doc_chunks[k].content>>
    /\ ipc = "done" => Len(uploaded) = Len(doc_chunks)

C10_Witness == ipc = "done" /\ Len(uploaded) > 100 /\ CallCount("upload_documents") = 2

\* number of documents the index holds under a chunk_id
HeldUnder(id) == Cardinality({k \in 1..Len(store) : store[k].chunk_id = id})

\* C11: the index never holds two documents under one chunk_id; and when a
\* run has completed right after a completed run on the same document, the
\* schema is the one the first run left, the second run uploaded the chunk_ids
\* the first one uploaded, every one of them is held exactly once, and the
\* index holds as many documents as after the first run.
C11_RerunIdempotent ==
    /\ \A k \in 1..Len(store) : HeldUnder(store[k].chunk_id) = 1
    /\ (ipc = "done" /\ run_log # <<>>
           /\ run_log[Len(run_log)].outcome = "done"
           /\ run_log[Len(run_log)].chunks = doc_chunks) =>
          LET first == run_log[Len(run_log)]
          IN /\ indexes = first.schema
             /\ indexes = {IndexSchema}
             /\ ChunkIds(uploaded) = first.chunk_ids
             /\ \A k \in 1..Len(uploaded) : HeldUnder(uploaded[k].chunk_id) = 1
             /\ Len(store) = first.count

C11_Witness ==
    /\ ipc = "done"
    /\ run = 2
    /\ run_log[1].outcome = "done"
    /\ run_log[1].chunks = doc_chunks
    /\ Len(uploaded) >= 2
    /\ Len(store) = Len(uploaded)

\* C12: whenever a run has completed, the documents the index holds are
\* exactly the chunks of that run: the chunk_ids held are the chunk_ids of the
\* run's chunks and every held document was written by that run.
C12_FullReplace ==
    ipc = "done" =>
        /\ {store[k].chunk_id : k \in 1..Len(store)}
              = {doc_chunks[k].chunk_id : k \in 1..Len(doc_chunks)}
        /\ \A k \in 1..Len(store) : store[k].indexed_at = run

\* position of a service in the order of a query's outbound calls
QueryCallRank(service) ==
    IF service = "embeddings" THEN 1 ELSE IF service = "search" THEN 2 ELSE 3

IndexCallRank(service) ==
    IF service = "create_or_update_index" THEN 1
    ELSE IF service = "embeddings" THEN 2 ELSE 3

\* C14: in an indexing run the outbound calls are, in order, one
\* create_or_update_index, the embedding requests, the uploads; chunks exist
\* only once the index has been created, an upload is made only after the
\* index was created and get_embeddings_batch returned one embedding per chunk,
\* and a run whose step failed has ended with the failing call as its last
\* call and nothing of a later step done.
C14_IndexStepOrder ==
    entry = "index_document" =>
        /\ \A j, k \in 1..Len(calls) :
              j < k => IndexCallRank(calls[j]) <= IndexCallRank(calls[k])
        /\ CallCount("create_or_update_index") <= 1
        /\ (doc_chunks # <<>> \/ CallCount("embeddings") >= 1) =>
              /\ calls[1] = "create_or_update_index"
              /\ indexes = {IndexSchema}
        /\ (CallCount("upload_documents") >= 1 \/ uploaded # <<>>) =>
              /\ calls[1] = "create_or_update_index"
              /\ indexes = {IndexSchema}
              /\ epc = "idle"
              /\ Len(embeddings) = Len(doc_chunks)
              /\ Join(requests, <<>>) = [k \in 1..Len(doc_chunks) |-> doc_chunks[k].content]
              /\ failed_step \in {"", "upload"}
        /\ failed_step # "" =>
              /\ ipc = "exit"
              /\ failed_step = "create_index" =>
                    /\ calls = <<"create_or_update_index">>
                    /\ indexes = {}
                    /\ doc_chunks = <<>>
              /\ failed_step = "chunk" =>
                    /\ calls = <<"create_or_update_index">>
                    /\ doc_chunks = <<>>
              /\ failed_step = "embed" =>
                    /\ calls[Len(calls)] = "embeddings"
                    /\ embeddings = <<>>
                    /\ documents = <<>>
              /\ failed_step = "upload" => calls[Len(calls)] = "upload_documents"
              /\ failed_step # "upload" => uploaded = <<>> /\ store = <<>>

C14_Witness ==
    /\ failed_step = "embed"
    /\ CallCount("embeddings") >= 2
    /\ Len(doc_chunks) > Len(all_embeddings)

RECURSIVE LocatedSpans(_, _, _, _)
\* the spans <<chunk_start, chunk_end>> chunk_document locates for the chunks
\* cs from position k on, the cursor being at pos
LocatedSpans(text, cs, k, pos) ==
    IF k > Len(cs) THEN <<>>
    ELSE LET found == Find(text, cs[k], pos)
             chunk_start == IF found = -1 THEN pos ELSE found
         IN << <<chunk_start, chunk_start + Len(cs[k])>> >>
                \o LocatedSpans(text, cs, k + 1, chunk_start + 1)

\* C15: the spans located for the chunks are the spans the chunks were cut
\* from: the buffer holds each chunk's text at its span, and, the splitter
\* dropping nothing but whitespace, every other character of the buffer lies
\* in the span of some chunk; each chunk's page_numbers is the ascending list
\* of the pages whose range intersects its span.
C15_LocatedSpanIsCutSpan ==
    cpc = "done" =>
        LET spans == LocatedSpans(full_text, chunks, 1, 0)
        IN /\ \A k \in 1..Len(chunks) :
                 /\ SubSeq(full_text, spans[k][1] + 1, spans[k][2]) = chunks[k]
                 /\ emitted[k].page_numbers
                       = ChunkPages(spans[k][1], spans[k][2], page_boundaries)
                 /\ \A j \in 1..(Len(emitted[k].page_numbers) - 1) :
                       emitted[k].page_numbers[j] < emitted[k].page_numbers[j + 1]
           /\ \A p \in 0..(Len(full_text) - 1) :
                 full_text[p + 1] \notin Whitespace =>
                     \E k \in 1..Len(chunks) : spans[k][1] <= p /\ p < spans[k][2]

\* C16: when a query has failed the app goes back to waiting for input with
\* the pipeline handle and every stored message kept; the pipeline handle,
\* once loaded, is never dropped; and an assistant message is added only for
\* a query that returned, holding that query's answer.
C16_FailedQueryKeepsSession ==
    [][/\ (qpc = "raised" /\ qpc' # "raised") =>
             /\ qpc' = "idle"
             /\ messages' = messages
             /\ rag_pipeline' = rag_pipeline
             /\ rag_pipeline # NoneValue
       /\ rag_pipeline # NoneValue => rag_pipeline' = rag_pipeline
       /\ (Len(messages') > Len(messages) /\ messages'[Len(messages')].role = "assistant") =>
             /\ qpc = "returned"
             /\ messages' = Append(messages, messages'[Len(messages')])
             /\ messages'[Len(messages')].content = response.answer]_vars

C16_Witness ==
    /\ Len(messages) = 3
    /\ messages[1].role = "user"
    /\ messages[2].role = "user"
    /\ messages[3].role = "assistant"
    /\ rag_pipeline # NoneValue
    /\ qpc = "idle"

\* C17: whenever clients have been constructed, which happens only after
\* validate_config returned no error, every environment variable they read
\* at construction is set, the static OpenAI key included when managed
\* identity is off.
C17_ValidatedSettingsPresent ==
    clients # {} =>
        /\ validated /\ errors = <<>>
        /\ \A v \in ClientSettings(env) : env[v] # Unset

====
